---- MODULE Spec2Model ----
(***************************************************************************)
(* State-machine model of the AGI queue manager (src/src/AGIQueueManager.ts)*)
(* together with the collaborators a processing step awaits: the escrow    *)
(* contract (contracts/src/Mock13.sol), the transaction helpers            *)
(* (src/src/utils.ts) and the failed-swaps store                           *)
(* (src/src/db/failedSwapsDB.ts).                                          *)
(*                                                                         *)
(* One action is one run of JavaScript between two suspension points: the  *)
(* interval callback up to the first await, and every continuation of an   *)
(* awaited external call up to the next await or the end of the step.      *)
(***************************************************************************)
EXTENDS Integers, Sequences, FiniteSets, TLC

\* ---------------------------------------------------------------- bounds
MaxId == 2          \* order ids 1..MaxId exist on the contract

\* ------------------------------------------------------ program constants
RETRY_DELAY == 1000
SWAP_RETRY_DELAY == 30000
MAX_RETRIES == 2
CHECK_INTERVAL == 2000

\* ExtendedOrderStatus
PendingDispense == 0
DispensedPendingProceeds == 1
SwapInitiated == 3
SwapCompleted == 4
ProceedsReceived == 2

Ids == 1..MaxId
ContractStatuses == {PendingDispense, DispensedPendingProceeds, ProceedsReceived}
\* What Map.get returns for a key that was never set; every number the
\* program stores is >= 0.
Undefined == 0 - 1
\* The status of a swapResults entry that does not exist.
Absent == "absent"

\* Amounts are written hi * Limb + lo with lo < Limb; Limb is 2^27.
Limb == 134217728

uint(hi, lo) == [hi |-> hi, lo |-> lo]

\* hi of 2^53, the first integer whose successor a JavaScript number
\* cannot hold.
MaxSafeHi == 67108864

\* The amounts the swap capability returns (execution.toAmount, a decimal
\* string of base units): 100 and 2^53 + 1.
SwapAmounts == {uint(0, 100), uint(MaxSafeHi, 1)}

\* The output of the route executed for an order.  The route is found from
\* the order's assets and amount to sell, which the contract fixes when the
\* intent is published, and an order is swapped at most once: the model
\* gives the orders with an odd id 100 and the others 2^53 + 1.
execution_toAmount(agiId) ==
    IF agiId % 2 = 1 THEN uint(0, 100) ELSE uint(MaxSafeHi, 1)

\* parseInt of the decimal string of an amount below 2^54: the nearest
\* IEEE double, ties to the even mantissa.  From 2^53 on the doubles are
\* the even integers.
parseInt(s) ==
    IF s.hi < MaxSafeHi \/ s.lo % 2 = 0
    THEN s
    ELSE IF s.lo % 4 = 1
    THEN uint(s.hi, s.lo - 1)
    ELSE IF s.lo + 1 = Limb
    THEN uint(s.hi + 1, 0)
    ELSE uint(s.hi, s.lo + 1)

\* The program reads the clock only to form Date.now() - lastAttempt, so
\* the model keeps, for every id, the time elapsed since lastAttemptAge
\* was set instead of the two absolute times.  An elapsed time of
\* SWAP_RETRY_DELAY or more passes every gate, so it is kept as LongAgo.
LongAgo == SWAP_RETRY_DELAY
\* The amounts by which the model lets time pass at once: enough for
\* RETRY_DELAY but not for SWAP_RETRY_DELAY, and enough for both.
TimeSteps == {SWAP_RETRY_DELAY - RETRY_DELAY, SWAP_RETRY_DELAY}

\* A map entry that was never set (Map.get returns undefined).
NoSwapResult == [status |-> Absent, attemptCount |-> 0, amountToBuy |-> uint(0, 0)]

VARIABLES
    \* ---- AGIQueueManager fields
    queue,            \* number[]
    isProcessing,     \* boolean
    checkIntervalId,  \* TRUE iff an interval timer is set
    swapResults,      \* Map<number, SwapResult>
    orderStatus,      \* Map<number, ExtendedOrderStatus>
    lastAttemptAge,   \* Map lastAttemptTime, as Date.now() - lastAttemptTime.get(id)
    lastDelay,        \* Map<number, number>
    \* ---- the step in flight (position of processAGI between awaits)
    pc,               \* "idle" or the external call the step awaits
    cur,              \* agiId of the step in flight
    agi,              \* agi.orderStatus as returned by viewAGI, or Undefined
    internal,         \* this.orderStatus.get(agiId) at the status selection
    status,           \* currentStatus: the status the step dispatched on
    err,              \* the error the catch block got: "none", "swap", "other"
    swapAtStart,      \* swapResults.get(agiId) when the step started
    receipt,          \* what checkTransactionReceipt saw in this step: "none",
                      \* "success", "reverted" or "notFound"
    \* ---- environment
    contractStatus,   \* Mock13: orderStatus of every intent
    nextOrderId,      \* Mock13.nextOrderId
    processedAGIs,    \* Mock13.processedAGIs
    failedSwaps,      \* agi_id keys of the rows of table failed_swaps
    dbInitialized,    \* FailedSwapsDB.initialized
    \* ---- history (observation only, never read by the program)
    activeSteps,      \* number of startProcessing runs past the flag, not yet ended
    lastTick,         \* what the last interval callback did
    swapCalls,        \* per id: calls of defaultSwap started
    swapSucceeded,    \* per id: some defaultSwap call returned
    recordCalls,      \* per id: invocations of recordFailedSwap
    deleteCalls,      \* per id: invocations of tryDeleteFailedSwap
    evicted,          \* ids removed by removeFromQueue
    proceedsSeen,     \* ids for which handleProceedsReceived ran
    turnsSince,       \* turnsSince[x][y]: the turns startProcessing gave to y
                      \* since the last turn of x, both staying in the queue;
                      \* Undefined when x had no turn yet or one of them left
    prevStatus,       \* per id: the status its previous step dispatched on
    failedAge,        \* per id: time since a step of it ended on a failed swap
    toAmount,         \* per id: the string its successful defaultSwap returned
    written,          \* writeContract calls that returned in the current step
    scan,             \* processPendingAGIs (solver.ts): its position and locals
    lastCall          \* the entry point the last step ran (add or the interval
                      \* callback) with its argument and outcome; NoCall
                      \* when the last step was a continuation or time passing

mgrVars == <<queue, isProcessing, checkIntervalId, swapResults, orderStatus,
             lastAttemptAge, lastDelay>>
stepVars == <<pc, cur, agi, internal, status, err, receipt, swapAtStart>>
envVars == <<contractStatus, nextOrderId, processedAGIs, failedSwaps,
             dbInitialized>>
histVars == <<activeSteps, lastTick, swapCalls, swapSucceeded, recordCalls,
              deleteCalls, evicted, proceedsSeen>>
obsVars == <<prevStatus, failedAge>>
txVars == <<toAmount, written>>
vars == <<mgrVars, stepVars, envVars, histVars, turnsSince, obsVars, txVars, scan,
          lastCall>>

\* ------------------------------------------------------------- helpers
\* A membership test that never finds the element.
includesNever(q, x) == FALSE

\* Array.prototype.includes
includes(q, x) == \E i \in 1..Len(q) : q[i] = x

\* queue.splice(queue.indexOf(x), 1) when indexOf(x) > -1
splice(q, x) ==
    IF includes(q, x)
    THEN LET i == CHOOSE j \in 1..Len(q) : q[j] = x /\ \A k \in 1..(j-1) : q[k] # x
         IN  SubSeq(q, 1, i - 1) \o SubSeq(q, i + 1, Len(q))
    ELSE q

\* this.queue.push(this.queue.shift()) without the shift: the head is
\* copied to the tail.
rotateCopying(q) == q \o <<Head(q)>>

\* this.queue.push(this.queue.shift()!)
rotate(q) == Tail(q) \o <<Head(q)>>

\* turnsSince after startProcessing took nextAgiId from the head of q.
turnTaken(ts, q, nextAgiId) ==
    [x \in Ids |-> [y \in Ids |->
        IF x = nextAgiId
        THEN IF y # nextAgiId /\ includes(q, y) THEN 0 ELSE Undefined
        ELSE IF y = nextAgiId /\ ts[x][y] # Undefined THEN ts[x][y] + 1
        ELSE ts[x][y]]]

\* turnsSince after agiId was spliced out of the queue.
turnsForgotten(ts, agiId) ==
    [x \in Ids |-> [y \in Ids |->
        IF x = agiId \/ y = agiId THEN Undefined ELSE ts[x][y]]]

\* The value of lastCall after a step that entered neither add nor the
\* interval callback.
NoCall == [op |-> "none", id |-> 0, result |-> "none"]

\* queue.indexOf(x), counted from 1; 0 when x is not in q
indexOf(q, x) ==
    IF includes(q, x)
    THEN CHOOSE j \in 1..Len(q) : q[j] = x /\ \A k \in 1..(j-1) : q[k] # x
    ELSE 0

\* JavaScript truthiness of a map lookup: undefined and 0 are falsy.
Truthy(v) == v # Undefined /\ v # 0

\* `x || d`
OrElse(x, d) == IF Truthy(x) THEN x ELSE d

\* --------------------------------------------------- pure program logic
\* shouldSkipTask, over an explicit value of the swapResults map
shouldSkipTask(results, agiId) ==
    /\ results[agiId].status = "failed"
    /\ OrElse(results[agiId].attemptCount, 0) >= MAX_RETRIES

\* The status selection without the test of the contract status: the
\* internal status would win whenever it is set.
currentStatusOverlayFirst(contract, overlay) ==
    IF Truthy(overlay) THEN overlay ELSE contract

\* The status selection of processAGI: the status a step dispatches on.
currentStatus(contract, overlay) ==
    IF contract = DispensedPendingProceeds /\ Truthy(overlay)
    THEN overlay
    ELSE contract

\* The gate of processAGI: TRUE when the step must wait.
mustWait(agiId) ==
    LET timeSinceLastAttempt ==
            \* Date.now() - (lastAttemptTime.get(agiId) || 0)
            IF lastAttemptAge[agiId] = Undefined THEN LongAgo
            ELSE lastAttemptAge[agiId]
        requiredDelay == OrElse(lastDelay[agiId], RETRY_DELAY)
    IN  timeSinceLastAttempt < requiredDelay

\* The single-flight test with the flag never consulted.
NotProcessingIgnored == TRUE

\* The single-flight test made by the interval callback and by
\* startProcessing.
NotProcessing == isProcessing = FALSE

\* getfailedSwapTask
getfailedSwapTask ==
    LET ids == { i \in Ids : swapResults[i].status # Absent
                             /\ shouldSkipTask(swapResults, i) }
    IN  [count |-> Cardinality(ids), ids |-> ids]

\* ----------------------------------------------------------------- Init
InitManager ==
    /\ queue = <<>>
    /\ isProcessing = FALSE
    /\ checkIntervalId = FALSE
    /\ swapResults = [i \in Ids |-> NoSwapResult]
    /\ orderStatus = [i \in Ids |-> Undefined]
    /\ lastAttemptAge = [i \in Ids |-> Undefined]
    /\ lastDelay = [i \in Ids |-> Undefined]
    /\ pc = "idle"
    /\ cur = 0
    /\ agi = Undefined
    /\ internal = Undefined
    /\ status = Undefined
    /\ err = "none"
    /\ receipt = "none"
    /\ swapAtStart = NoSwapResult
    /\ dbInitialized = FALSE
    /\ activeSteps = 0
    /\ lastTick = "none"
    /\ swapCalls = [i \in Ids |-> 0]
    /\ swapSucceeded = [i \in Ids |-> FALSE]
    /\ recordCalls = [i \in Ids |-> 0]
    /\ deleteCalls = [i \in Ids |-> 0]
    /\ evicted = {}
    /\ proceedsSeen = {}
    /\ turnsSince = [x \in Ids |-> [y \in Ids |-> Undefined]]
    /\ lastCall = NoCall
    /\ prevStatus = [i \in Ids |-> Undefined]
    /\ failedAge = [i \in Ids |-> Undefined]
    /\ toAmount = [i \in Ids |-> uint(0, 0)]
    /\ written = 0

\* The orders in which Mock13.depositAsset can have pushed the ids in S.
Orderings(S) ==
    { q \in [1..Cardinality(S) -> S] : \A a, b \in DOMAIN q : a # b => q[a] # q[b] }

\* processPendingAGIs has not been called.
NoScan == [pc |-> "off", totalTasksAmount |-> 0, processedAGIsAmount |-> 0,
           unprocessedAGIs |-> <<>>, added |-> <<>>]

\* The manager as constructed, with every order id published and the
\* contract in any state earlier runs can have left.
Init ==
    /\ InitManager
    /\ nextOrderId = MaxId + 1
    /\ contractStatus \in [Ids -> ContractStatuses]
    /\ processedAGIs \in Orderings({i \in Ids : contractStatus[i] = ProceedsReceived})
    /\ failedSwaps = {}               \* a new database file
    /\ scan = NoScan

\* ------------------------------------------------- ends of a step
\* startProcessing's finally block, reached when processAGI has returned
\* or thrown.  cur, agi, internal, status and err keep the values of the
\* step that ended until the next step starts.
EndStep ==
    /\ isProcessing' = FALSE
    /\ swapAtStart' = NoSwapResult
    /\ pc' = "idle"
    /\ activeSteps' = activeSteps - 1

\* processAGI after the switch: "If we get here, the task was successful".
Succeed(agiId) ==
    /\ lastAttemptAge' = [lastAttemptAge EXCEPT ![agiId] = 0]
    /\ lastDelay' = [lastDelay EXCEPT ![agiId] = RETRY_DELAY]
    /\ err' = "none"
    /\ EndStep

\* The catch block with RETRY_DELAY for every kind of error.
CatchGenericDelay(agiId, results, kind) ==
    IF shouldSkipTask(results, agiId)
    THEN /\ pc' = "record"
         /\ err' = kind
         /\ recordCalls' = [recordCalls EXCEPT ![agiId] = @ + 1]
         /\ UNCHANGED <<isProcessing, activeSteps, lastAttemptAge, lastDelay,
                        swapAtStart>>
    ELSE /\ lastAttemptAge' = [lastAttemptAge EXCEPT ![agiId] = 0]
         /\ err' = kind
         /\ lastDelay' = [lastDelay EXCEPT ![agiId] = RETRY_DELAY]
         /\ UNCHANGED recordCalls
         /\ EndStep

\* The catch block testing its local attemptCount against MAX_RETRIES
\* instead of calling shouldSkipTask.
CatchCountingAttempts(agiId, results, kind) ==
    IF OrElse(results[agiId].attemptCount, 0) >= MAX_RETRIES
    THEN /\ pc' = "record"
         /\ err' = kind
         /\ recordCalls' = [recordCalls EXCEPT ![agiId] = @ + 1]
         /\ UNCHANGED <<isProcessing, activeSteps, lastAttemptAge, lastDelay,
                        swapAtStart>>
    ELSE /\ lastAttemptAge' = [lastAttemptAge EXCEPT ![agiId] = 0]
         /\ err' = kind
         /\ lastDelay' = [lastDelay EXCEPT ![agiId] =
                            IF kind = "swap" THEN SWAP_RETRY_DELAY ELSE RETRY_DELAY]
         /\ UNCHANGED recordCalls
         /\ EndStep

\* The catch block of processAGI up to its first await; `results` is the
\* swapResults map as the failed handler left it, `kind` is "swap" for a
\* SwapError and "other" for every other error.
Catch(agiId, results, kind) ==
    IF shouldSkipTask(results, agiId)
    THEN /\ pc' = "record"
         /\ err' = kind
         /\ recordCalls' = [recordCalls EXCEPT ![agiId] = @ + 1]
         /\ UNCHANGED <<isProcessing, activeSteps, lastAttemptAge, lastDelay,
                        swapAtStart>>
    ELSE /\ lastAttemptAge' = [lastAttemptAge EXCEPT ![agiId] = 0]
         /\ err' = kind
         /\ lastDelay' = [lastDelay EXCEPT ![agiId] =
                            IF kind = "swap" THEN SWAP_RETRY_DELAY ELSE RETRY_DELAY]
         /\ UNCHANGED recordCalls
         /\ EndStep

\* startQueueCheck with setInterval left out.
startQueueCheckNever == checkIntervalId' = checkIntervalId

\* startQueueCheck: the interval is set unless one is running.
startQueueCheck == checkIntervalId' = TRUE

\* stopQueueCheck with clearInterval left out.
stopQueueCheckKeeping == checkIntervalId' = checkIntervalId

\* stopQueueCheck
stopQueueCheck == checkIntervalId' = FALSE

\* removeFromQueue calling stopQueueCheck whatever is left in the queue.
removeFromQueueStopping(agiId) ==
    IF includes(queue, agiId)
    THEN /\ queue' = splice(queue, agiId)
         /\ lastAttemptAge' = [lastAttemptAge EXCEPT ![agiId] = Undefined]
         /\ lastDelay' = [lastDelay EXCEPT ![agiId] = Undefined]
         /\ stopQueueCheck
         /\ evicted' = evicted \cup {agiId}
         /\ turnsSince' = turnsForgotten(turnsSince, agiId)
         /\ UNCHANGED <<swapResults, orderStatus>>
    ELSE UNCHANGED <<queue, lastAttemptAge, lastDelay, checkIntervalId,
                     evicted, swapResults, orderStatus, turnsSince>>

\* removeFromQueue with the two deletions the source has commented out.
removeFromQueueForgetting(agiId) ==
    IF includes(queue, agiId)
    THEN /\ queue' = splice(queue, agiId)
         /\ orderStatus' = [orderStatus EXCEPT ![agiId] = Undefined]
         /\ swapResults' = [swapResults EXCEPT ![agiId] = NoSwapResult]
         /\ lastAttemptAge' = [lastAttemptAge EXCEPT ![agiId] = Undefined]
         /\ lastDelay' = [lastDelay EXCEPT ![agiId] = Undefined]
         /\ IF Len(queue') = 0 THEN stopQueueCheck ELSE UNCHANGED checkIntervalId
         /\ evicted' = evicted \cup {agiId}
         /\ turnsSince' = turnsForgotten(turnsSince, agiId)
    ELSE UNCHANGED <<queue, lastAttemptAge, lastDelay, checkIntervalId,
                     evicted, swapResults, orderStatus, turnsSince>>

\* removeFromQueue
removeFromQueue(agiId) ==
    IF includes(queue, agiId)
    THEN /\ queue' = splice(queue, agiId)
         /\ lastAttemptAge' = [lastAttemptAge EXCEPT ![agiId] = Undefined]
         /\ lastDelay' = [lastDelay EXCEPT ![agiId] = Undefined]
         /\ IF Len(queue') = 0 THEN stopQueueCheck ELSE UNCHANGED checkIntervalId
         /\ evicted' = evicted \cup {agiId}
         /\ turnsSince' = turnsForgotten(turnsSince, agiId)
         /\ UNCHANGED <<swapResults, orderStatus>>
    ELSE UNCHANGED <<queue, lastAttemptAge, lastDelay, checkIntervalId,
                     evicted, swapResults, orderStatus, turnsSince>>

\* Mock13.depositAsset when its require statements pass.
Mock13_depositAsset(orderId) ==
    /\ contractStatus[orderId] = DispensedPendingProceeds
    /\ contractStatus' = [contractStatus EXCEPT ![orderId] = ProceedsReceived]
    /\ processedAGIs' = Append(processedAGIs, orderId)

\* -------------------------------------------------------------- actions
\* add(agiId), called by the event listener and by the backlog scan.
add(agiId) ==
    /\ IF includes(queue, agiId)
       THEN /\ lastCall' = [op |-> "add", id |-> agiId, result |-> "duplicate"]
            /\ UNCHANGED <<queue, checkIntervalId>>
       ELSE IF shouldSkipTask(swapResults, agiId)
       THEN /\ lastCall' = [op |-> "add", id |-> agiId, result |-> "refused"]
            /\ UNCHANGED <<queue, checkIntervalId>>
       ELSE /\ queue' = Append(queue, agiId)
            /\ startQueueCheck
            /\ lastCall' = [op |-> "add", id |-> agiId, result |-> "added"]
    /\ UNCHANGED <<isProcessing, swapResults, orderStatus, lastAttemptAge,
                   lastDelay, stepVars, envVars, histVars, turnsSince,
                   obsVars, txVars>>

Add == \E agiId \in Ids : add(agiId) /\ UNCHANGED scan

\* The gate of processAGI with the attempt stamped before the return.
gateReturnStamping(agiId) ==
    /\ lastTick' = "gated"
    /\ pc' = "idle"
    /\ isProcessing' = FALSE
    /\ lastAttemptAge' = [lastAttemptAge EXCEPT ![agiId] = 0]
    /\ UNCHANGED activeSteps

\* The return of processAGI when the gate holds the step back, and the
\* finally block of startProcessing.
gateReturn(agiId) ==
    /\ lastTick' = "gated"
    /\ pc' = "idle"
    /\ isProcessing' = FALSE
    /\ UNCHANGED <<lastAttemptAge, activeSteps>>

\* startProcessing and processAGI up to its first await (viewAGI).
startProcessing ==
    LET nextAgiId == Head(queue) IN
    /\ queue' = rotate(queue)
    /\ cur' = nextAgiId
    /\ agi' = Undefined
    /\ internal' = Undefined
    /\ status' = Undefined
    /\ err' = "none"
    /\ receipt' = "none"
    /\ IF shouldSkipTask(swapResults, nextAgiId)
       THEN /\ lastTick' = "skipped"
            /\ pc' = "idle"
            /\ isProcessing' = FALSE
            /\ UNCHANGED <<lastAttemptAge, activeSteps>>
       ELSE IF mustWait(nextAgiId)
       THEN gateReturn(nextAgiId)
       ELSE /\ lastTick' = "started"
            /\ lastAttemptAge' = [lastAttemptAge EXCEPT ![nextAgiId] = 0]
            /\ pc' = "read"
            /\ isProcessing' = TRUE
            /\ activeSteps' = activeSteps + 1
    /\ lastCall' = [op |-> "tick", id |-> nextAgiId, result |-> lastTick']
    /\ swapAtStart' = IF lastTick' = "started" THEN swapResults[nextAgiId]
                      ELSE NoSwapResult
    /\ turnsSince' = turnTaken(turnsSince, queue, nextAgiId)
    /\ UNCHANGED <<scan, obsVars, toAmount>>
    /\ written' = 0
    /\ UNCHANGED <<checkIntervalId, swapResults, orderStatus, lastDelay, envVars,
                   swapCalls, swapSucceeded, recordCalls, deleteCalls, evicted,
                   proceedsSeen>>

\* The interval callback set by startQueueCheck.
Tick ==
    /\ checkIntervalId
    /\ IF NotProcessing /\ Len(queue) > 0
       THEN startProcessing
       ELSE IF Len(queue) = 0
       THEN /\ stopQueueCheck
            /\ lastTick' = "stopped"
            /\ lastCall' = [op |-> "tick", id |-> 0, result |-> "stopped"]
            /\ UNCHANGED <<turnsSince, scan, obsVars, txVars>>
            /\ UNCHANGED <<queue, isProcessing, swapResults, orderStatus,
                           lastAttemptAge, lastDelay, stepVars, envVars,
                           activeSteps, swapCalls, swapSucceeded, recordCalls,
                           deleteCalls, evicted, proceedsSeen>>
       ELSE /\ lastTick' = "busy"
            /\ lastCall' = [op |-> "tick", id |-> 0, result |-> "busy"]
            /\ UNCHANGED <<turnsSince, scan, obsVars, txVars>>
            /\ UNCHANGED <<mgrVars, stepVars, envVars, activeSteps, swapCalls,
                           swapSucceeded, recordCalls, deleteCalls, evicted,
                           proceedsSeen>>

\* Time passes.
Advance ==
    /\ \E d \in TimeSteps :
         /\ lastAttemptAge' =
             [i \in Ids |->
                 IF lastAttemptAge[i] = Undefined THEN Undefined
                 ELSE IF lastAttemptAge[i] + d >= LongAgo THEN LongAgo
                 ELSE lastAttemptAge[i] + d]
         /\ failedAge' =
             [i \in Ids |->
                 IF failedAge[i] = Undefined THEN Undefined
                 ELSE IF failedAge[i] + d >= LongAgo THEN LongAgo
                 ELSE failedAge[i] + d]
    /\ UNCHANGED <<queue, isProcessing, checkIntervalId, swapResults,
                   orderStatus, lastDelay, stepVars, envVars, histVars,
                   turnsSince, scan, prevStatus, txVars>>
    /\ lastCall' = NoCall

\* handleSwapInitiated up to the await of defaultSwap: TRUE when the
\* pre-checks let a swap start.
startsSwap(agiId) ==
    LET existingSwap == swapResults[agiId] IN
    IF existingSwap.status # Absent
    THEN /\ existingSwap.status # "pending"
         /\ existingSwap.status # "completed"
         /\ ~shouldSkipTask(swapResults, agiId)
    ELSE TRUE

\* pendingSwap with the attempt count set to 1 instead of incremented.
pendingSwapFirstAttempt(agiId) ==
    LET existingSwap == swapResults[agiId]
        currentSwap == IF existingSwap.status # Absent
                       THEN existingSwap
                       ELSE [status |-> "pending", attemptCount |-> 0,
                             amountToBuy |-> uint(0, 0)]
    IN  [currentSwap EXCEPT !.attemptCount = 1]

\* The record handleSwapInitiated leaves in swapResults before it awaits
\* defaultSwap.
pendingSwap(agiId) ==
    LET existingSwap == swapResults[agiId]
        currentSwap == IF existingSwap.status # Absent
                       THEN existingSwap
                       ELSE [status |-> "pending", attemptCount |-> 0,
                             amountToBuy |-> uint(0, 0)]
        attemptCount == OrElse(existingSwap.attemptCount, 0) + 1
    IN  [currentSwap EXCEPT !.attemptCount = attemptCount]

\* handleDispensedPendingProceeds moving the internal status past the swap.
handleDispensedPendingProceedsCompleted(agiId) ==
    orderStatus' = [orderStatus EXCEPT ![agiId] = SwapCompleted]

\* handleDispensedPendingProceeds
handleDispensedPendingProceeds(agiId) ==
    orderStatus' = [orderStatus EXCEPT ![agiId] = SwapInitiated]

\* The continuation of viewAGI: status selection and dispatch, up to the
\* handler's first await or the end of the step.
ReadContract ==
    /\ pc = "read"
    /\ lastCall' = NoCall
    /\ UNCHANGED <<scan, txVars>>
    /\ UNCHANGED receipt
    /\ \/ \* readContract rejects
          /\ Catch(cur, swapResults, "other")
          /\ UNCHANGED obsVars
          /\ UNCHANGED <<queue, checkIntervalId, swapResults, orderStatus,
                         cur, agi, internal, status, envVars, lastTick, turnsSince,
                         swapCalls, swapSucceeded, deleteCalls, evicted,
                         proceedsSeen>>
       \/ \* readContract returns the intent
          LET read == contractStatus[cur]
              st == currentStatus(read, orderStatus[cur])
          IN
          /\ agi' = read
          /\ internal' = orderStatus[cur]
          /\ status' = st
          /\ prevStatus' = [prevStatus EXCEPT ![cur] = st]
          /\ failedAge' = IF st = SwapInitiated /\ startsSwap(cur)
                          THEN [failedAge EXCEPT ![cur] = Undefined]
                          ELSE failedAge
          /\ turnsSince' = IF st = ProceedsReceived
                           THEN turnsForgotten(turnsSince, cur)
                           ELSE turnsSince
          /\ UNCHANGED <<cur, envVars, lastTick, swapSucceeded, deleteCalls,
                         evicted, recordCalls>>
          /\ CASE st = PendingDispense ->
                    \* handlePendingDispense awaits withdrawAsset
                    /\ pc' = "withdraw"
                    /\ UNCHANGED swapAtStart
                    /\ UNCHANGED <<queue, isProcessing, checkIntervalId,
                                   swapResults, orderStatus, lastAttemptAge,
                                   lastDelay, err, activeSteps, swapCalls,
                                   proceedsSeen>>
               [] st = DispensedPendingProceeds ->
                    /\ handleDispensedPendingProceeds(cur)
                    /\ Succeed(cur)
                    /\ UNCHANGED <<queue, checkIntervalId, swapResults,
                                   swapCalls, proceedsSeen>>
               [] st = SwapInitiated ->
                    \* handleSwapInitiated
                    IF startsSwap(cur)
                    THEN /\ swapResults' = [swapResults EXCEPT ![cur] = pendingSwap(cur)]
                         /\ swapCalls' = [swapCalls EXCEPT ![cur] = @ + 1]
                         /\ pc' = "swap"
                         /\ UNCHANGED swapAtStart
                         /\ UNCHANGED <<queue, isProcessing, checkIntervalId,
                                        orderStatus, lastAttemptAge, lastDelay,
                                        err, activeSteps, proceedsSeen>>
                    ELSE /\ orderStatus' =
                              IF swapResults[cur].status = "completed"
                              THEN [orderStatus EXCEPT ![cur] = SwapCompleted]
                              ELSE orderStatus
                         /\ Succeed(cur)
                         /\ UNCHANGED <<queue, checkIntervalId, swapResults,
                                        swapCalls, proceedsSeen>>
               [] st = SwapCompleted ->
                    \* handleSwapCompleted
                    IF swapResults[cur].status # Absent
                    THEN /\ pc' = "deposit"
                         /\ UNCHANGED swapAtStart
                         /\ UNCHANGED <<queue, isProcessing, checkIntervalId,
                                        swapResults, orderStatus, lastAttemptAge,
                                        lastDelay, err, activeSteps, swapCalls,
                                        proceedsSeen>>
                    ELSE /\ Succeed(cur)
                         /\ UNCHANGED <<queue, checkIntervalId, swapResults,
                                        orderStatus, swapCalls, proceedsSeen>>
               [] st = ProceedsReceived ->
                    \* handleProceedsReceived
                    /\ orderStatus' = [orderStatus EXCEPT ![cur] = Undefined]
                    /\ queue' = splice(queue, cur)
                    /\ proceedsSeen' = proceedsSeen \cup {cur}
                    /\ Succeed(cur)
                    /\ UNCHANGED <<checkIntervalId, swapResults, swapCalls>>

\* The continuation of withdrawAsset (utils.ts): simulateContract,
\* writeContract, checkTransactionReceipt.
Withdraw ==
    /\ pc = "withdraw"
    /\ lastCall' = NoCall
    /\ UNCHANGED <<scan, obsVars, toAmount>>
    /\ UNCHANGED turnsSince
    /\ UNCHANGED <<queue, checkIntervalId, swapResults, orderStatus, cur, agi,
                   internal, status, failedSwaps, dbInitialized, lastTick,
                   swapCalls, swapSucceeded, deleteCalls, evicted, proceedsSeen,
                   nextOrderId, processedAGIs>>
    /\ \/ \* simulateContract or writeContract rejects: rethrown to processAGI
          /\ Catch(cur, swapResults, "other")
          /\ written' = 0
          /\ UNCHANGED <<contractStatus, receipt>>
       \/ \* the receipt reports success: Mock13.withdrawAsset has run
          /\ contractStatus[cur] = PendingDispense
          /\ contractStatus' = [contractStatus EXCEPT ![cur] = DispensedPendingProceeds]
          /\ receipt' = "success"
          /\ written' = 1
          /\ Succeed(cur)
          /\ UNCHANGED recordCalls
       \/ \* the receipt is reverted or never found: the polling loop of
          \* checkTransactionReceipt swallows the error and never ends
          /\ pc' = "hung"
          /\ receipt' \in {"reverted", "notFound"}
          /\ written' = 1
          /\ UNCHANGED swapAtStart
          /\ UNCHANGED <<contractStatus, isProcessing, activeSteps,
                         lastAttemptAge, lastDelay, err, recordCalls>>

\* swapReturned with the body of the failure branch: the result is stored
\* as failed and the internal status is left alone.
swapReturnedAsFailed(agiId, amountToBuy) ==
    /\ swapResults' = [swapResults EXCEPT ![agiId] =
                         [status |-> "failed",
                          attemptCount |-> swapResults[agiId].attemptCount,
                          amountToBuy |-> parseInt(amountToBuy)]]
    /\ UNCHANGED orderStatus

\* The continuation of defaultSwap inside handleSwapInitiated, when the
\* swap returned amountToBuy.
swapReturned(agiId, amountToBuy) ==
    /\ swapResults' = [swapResults EXCEPT ![agiId] =
                         [status |-> "completed",
                          attemptCount |-> swapResults[agiId].attemptCount,
                          amountToBuy |-> parseInt(amountToBuy)]]
    /\ orderStatus' = [orderStatus EXCEPT ![agiId] = SwapCompleted]

\* The catch block of handleSwapInitiated leaving the record pending.
failedSwapPending(agiId) ==
    [status |-> "pending",
     attemptCount |-> swapResults[agiId].attemptCount,
     amountToBuy |-> uint(0, 0)]

\* The record the catch block of handleSwapInitiated writes.
failedSwap(agiId) ==
    [status |-> "failed",
     attemptCount |-> swapResults[agiId].attemptCount,
     amountToBuy |-> uint(0, 0)]

Swap ==
    /\ pc = "swap"
    /\ lastCall' = NoCall
    /\ UNCHANGED <<scan, prevStatus, written>>
    /\ UNCHANGED receipt
    /\ UNCHANGED turnsSince
    /\ UNCHANGED <<queue, checkIntervalId, cur, agi, internal, status, envVars,
                   lastTick, swapCalls, deleteCalls, evicted, proceedsSeen>>
    /\ \/ \E amountToBuy \in SwapAmounts \cap {execution_toAmount(cur)} :
            /\ swapReturned(cur, amountToBuy)
            /\ swapSucceeded' = [swapSucceeded EXCEPT ![cur] = TRUE]
            /\ toAmount' = [toAmount EXCEPT ![cur] = amountToBuy]
            /\ Succeed(cur)
            /\ UNCHANGED <<recordCalls, failedAge>>
       \/ \* defaultSwap (or the evaluation of its arguments) throws:
          \* wrapped in a SwapError
          /\ swapResults' = [swapResults EXCEPT ![cur] = failedSwap(cur)]
          /\ Catch(cur, swapResults', "swap")
          /\ failedAge' = IF pc' = "idle"
                          THEN [failedAge EXCEPT ![cur] = 0]
                          ELSE failedAge
          /\ UNCHANGED <<orderStatus, swapSucceeded, toAmount>>

\* handleSwapCompleted dropping the swap record when depositAsset throws.
depositAssetThrewForgetting(agiId) ==
    /\ swapResults' = [swapResults EXCEPT ![agiId] = NoSwapResult]
    /\ UNCHANGED <<orderStatus, deleteCalls>>

\* handleSwapCompleted setting the internal status although depositAsset
\* threw.
depositAssetThrewMarking(agiId) ==
    /\ orderStatus' = [orderStatus EXCEPT ![agiId] = ProceedsReceived]
    /\ UNCHANGED <<swapResults, deleteCalls>>

\* handleSwapCompleted when depositAsset throws: the statements after the
\* await do not run.
depositAssetThrew(agiId) ==
    UNCHANGED <<swapResults, orderStatus, deleteCalls>>

\* The continuation of depositAsset (utils.ts) inside handleSwapCompleted:
\* simulateContract, writeContract twice, checkTransactionReceipt of the
\* second hash.
Deposit ==
    /\ pc = "deposit"
    /\ lastCall' = NoCall
    /\ UNCHANGED <<scan, obsVars, toAmount>>
    /\ UNCHANGED turnsSince
    /\ UNCHANGED <<queue, checkIntervalId, cur, agi, internal,
                   status, failedSwaps, dbInitialized, lastTick, swapCalls,
                   swapSucceeded, evicted, proceedsSeen, nextOrderId>>
    /\ \/ \* simulateContract or the first writeContract rejects
          /\ depositAssetThrew(cur)
          /\ Catch(cur, swapResults, "other")
          /\ written' = 0
          /\ UNCHANGED <<contractStatus, processedAGIs, receipt>>
       \/ \* the first transaction is mined, the second writeContract rejects
          /\ Mock13_depositAsset(cur)
          /\ written' = 1
          /\ depositAssetThrew(cur)
          /\ Catch(cur, swapResults, "other")
          /\ UNCHANGED receipt
       \/ \* the receipt of the second hash reports success:
          \* handleSwapCompleted goes on to tryDeleteFailedSwap
          /\ Mock13_depositAsset(cur)
          /\ orderStatus' = [orderStatus EXCEPT ![cur] = ProceedsReceived]
          /\ deleteCalls' = [deleteCalls EXCEPT ![cur] = @ + 1]
          /\ receipt' = "success"
          /\ written' = 2
          /\ pc' = "delete"
          /\ UNCHANGED <<isProcessing, activeSteps, lastAttemptAge, lastDelay,
                         err, recordCalls, swapResults, swapAtStart>>
       \/ \* the receipt of the second hash is reverted or never found:
          \* checkTransactionReceipt never ends; the first transaction may
          \* have been mined
          /\ pc' = "hung"
          /\ receipt' \in {"reverted", "notFound"}
          /\ written' = 2
          /\ \/ UNCHANGED <<contractStatus, processedAGIs>>
             \/ Mock13_depositAsset(cur)
          /\ UNCHANGED <<orderStatus, deleteCalls, isProcessing, activeSteps,
                         lastAttemptAge, lastDelay, err, recordCalls,
                         swapResults, swapAtStart>>

\* The continuation of failedSwapsDB.tryDeleteFailedSwap.
DeleteFailedSwap ==
    /\ pc = "delete"
    /\ lastCall' = NoCall
    /\ UNCHANGED <<scan, obsVars, txVars>>
    /\ UNCHANGED receipt
    /\ UNCHANGED turnsSince
    /\ UNCHANGED <<queue, checkIntervalId, swapResults, orderStatus, cur, agi,
                   internal, status, contractStatus, nextOrderId,
                   processedAGIs, lastTick, swapCalls,
                   swapSucceeded, deleteCalls, evicted, proceedsSeen>>
    /\ \/ \* init() succeeds; an error of the statements is caught and logged
          /\ dbInitialized' = TRUE
          /\ failedSwaps' \in {failedSwaps \ {cur}, failedSwaps}
          /\ Succeed(cur)
          /\ UNCHANGED recordCalls
       \/ \* init() throws (the database cannot be opened): not caught by
          \* tryDeleteFailedSwap
          /\ ~dbInitialized
          /\ UNCHANGED <<dbInitialized, failedSwaps>>
          /\ Catch(cur, swapResults, "other")

\* The continuation of failedSwapsDB.recordFailedSwap in the catch block of
\* processAGI.
RecordFailedSwap ==
    /\ pc = "record"
    /\ lastCall' = NoCall
    /\ UNCHANGED <<scan, prevStatus, txVars>>
    /\ failedAge' = IF err = "swap"
                    THEN [failedAge EXCEPT ![cur] = 0]
                    ELSE failedAge
    /\ UNCHANGED receipt
    /\ UNCHANGED <<cur, agi, internal, status, err, contractStatus,
                   nextOrderId, processedAGIs,
                   lastTick, swapCalls, swapSucceeded, recordCalls, deleteCalls,
                   proceedsSeen>>
    /\ \/ \* init() succeeds; INSERT OR IGNORE, an error of it is caught
          /\ dbInitialized' = TRUE
          /\ failedSwaps' \in {failedSwaps \cup {cur}, failedSwaps}
          /\ removeFromQueue(cur)
          /\ EndStep
       \/ \* init() throws: the error leaves the catch block, processAGI and
          \* startProcessing (whose finally block runs)
          /\ ~dbInitialized
          /\ EndStep
          /\ UNCHANGED <<dbInitialized, failedSwaps, queue, checkIntervalId,
                         swapResults, orderStatus, lastAttemptAge, lastDelay,
                         evicted, turnsSince>>

Next ==
    \/ Add
    \/ Tick
    \/ Advance
    \/ ReadContract
    \/ Withdraw
    \/ Swap
    \/ Deposit
    \/ DeleteFailedSwap
    \/ RecordFailedSwap

Spec == Init /\ [][Next]_vars

\* ------------------------------------------------------------- fairness
\* The outcomes of the awaited calls in which the call succeeds.
ReadOk == ReadContract /\ agi' # Undefined
WithdrawOk == Withdraw /\ receipt' = "success"
DepositOk == Deposit /\ receipt' = "success"

\* setInterval keeps firing the callback, time passes, every awaited call
\* settles, and a contract read, a withdraw and a deposit that are tried
\* again and again succeed at some point.
Fairness ==
    /\ WF_vars(Tick)
    /\ WF_vars(Advance)
    /\ WF_vars(ReadContract)
    /\ WF_vars(Withdraw)
    /\ WF_vars(Swap)
    /\ WF_vars(Deposit)
    /\ WF_vars(DeleteFailedSwap)
    /\ WF_vars(RecordFailedSwap)
    /\ SF_vars(ReadOk)
    /\ SF_vars(WithdrawOk)
    /\ SF_vars(DepositOk)

LiveSpec == Init /\ [][Next]_vars /\ Fairness

\* ------------------------------------------------- backlog scan (solver.ts)
BATCH_SIZE == 50

Max(a, b) == IF a >= b THEN a ELSE b
Min(a, b) == IF a <= b THEN a ELSE b
Range(q) == { q[k] : k \in DOMAIN q }

\* The numbers of S in increasing order.
ascending(S) ==
    CHOOSE p \in Orderings(S) : \A a, b \in DOMAIN p : a < b => p[a] < p[b]

\* Array.prototype.sort((a, b) => a - b) on distinct numbers
sort(q) == ascending(Range(q))

\* Mock13.getProcessedAGIs(_start, _end): the entries at the 0-based
\* indices _start .. _end - 1.
getProcessedAGIs(_start, _end) ==
    [k \in 1..(_end - _start) |-> processedAGIs[_start + k]]

\* The batch loop of getProcessedAGIIds from index i on: every batch reads
\* with the arguments startIndex and endIndex.
RECURSIVE batchesFrom(_, _, _)
batchesFrom(i, startIndex, endIndex) ==
    IF i > endIndex
    THEN <<>>
    ELSE getProcessedAGIs(startIndex, endIndex)
             \o batchesFrom(i + BATCH_SIZE, startIndex, endIndex)

\* getProcessedAGIIds
getProcessedAGIIds(startIndex, endIndex) ==
    batchesFrom(startIndex, startIndex, endIndex)

\* getPendingAGIs
getPendingAGIs(processedAGIsAmount, startId, endId) ==
    LET startIndex == Max(0, startId - 1)
        endIndex == Min(endId - 1, processedAGIsAmount - 1)
        processedIds == getProcessedAGIIds(startIndex, endIndex)
        processedSet == Range(processedIds)
        allTaskIds == [k \in 1..(endId - startId + 1) |-> startId + k - 1]
    IN  SelectSeq(allTaskIds, LAMBDA taskId : taskId \notin processedSet)

\* What a step of processPendingAGIs that does not call add leaves alone.
scanFrame ==
    /\ lastCall' = NoCall
    /\ UNCHANGED <<mgrVars, stepVars, envVars, histVars, turnsSince, obsVars,
                   txVars>>

\* A readContract of processPendingAGIs rejects: the catch block logs the
\* error and the scan ends.
scanFailed == scan' = [scan EXCEPT !.pc = "failed"]

\* processPendingAGIs up to the continuation of the nextOrderId read.
ScanNextOrderId ==
    /\ scan.pc = "start"
    /\ scanFrame
    /\ \/ scanFailed
       \/ IF nextOrderId = 1
          THEN scan' = [scan EXCEPT !.pc = "done"]
          ELSE scan' = [scan EXCEPT !.pc = "length",
                                    !.totalTasksAmount = nextOrderId - 1]

\* The continuation of the processedAGIsLength read.
ScanProcessedLength ==
    /\ scan.pc = "length"
    /\ scanFrame
    /\ \/ scanFailed
       \/ LET processedAGIsAmount == Len(processedAGIs) IN
          IF scan.totalTasksAmount = processedAGIsAmount
          THEN scan' = [scan EXCEPT !.pc = "done"]
          ELSE scan' = [scan EXCEPT !.pc = "pending",
                                    !.processedAGIsAmount = processedAGIsAmount]

\* The continuation of getPendingAGIs, up to the first add.
ScanPending ==
    /\ scan.pc = "pending"
    /\ scanFrame
    /\ \/ scanFailed
       \/ LET unprocessedAGIs ==
                  getPendingAGIs(scan.processedAGIsAmount, 1, scan.totalTasksAmount)
          IN  IF Len(unprocessedAGIs) = 0
              THEN scan' = [scan EXCEPT !.pc = "done"]
              ELSE scan' = [scan EXCEPT !.pc = "adding",
                                        !.unprocessedAGIs = sort(unprocessedAGIs)]

\* One iteration of `for (const agiId of unprocessedAGIs) await add(agiId)`.
ScanAdd ==
    /\ scan.pc = "adding"
    /\ LET agiId == Head(scan.unprocessedAGIs) IN
       /\ add(agiId)
       /\ scan' = [scan EXCEPT
                     !.unprocessedAGIs = Tail(@),
                     !.added = Append(@, agiId),
                     !.pc = IF Len(scan.unprocessedAGIs) = 1 THEN "done" ELSE "adding"]

ScanNext ==
    \/ ScanNextOrderId
    \/ ScanProcessedLength
    \/ ScanPending
    \/ ScanAdd

\* startListener calls processPendingAGIs on the manager as constructed;
\* the contract has published the ids below nextOrderId and is in any
\* state earlier runs can have left.
ScanInit ==
    /\ InitManager
    /\ nextOrderId \in 1..(MaxId + 1)
    /\ contractStatus \in [Ids -> ContractStatuses]
    /\ \A i \in Ids : i >= nextOrderId => contractStatus[i] = PendingDispense
    /\ processedAGIs \in Orderings({i \in Ids : contractStatus[i] = ProceedsReceived})
    /\ failedSwaps \in {{}, Ids}
    /\ scan = [NoScan EXCEPT !.pc = "start"]

ScanSpec == ScanInit /\ [][ScanNext]_vars

\* ================================================================ claims
attempts(i) == swapResults[i].attemptCount

\* C1 -- Single-flight: at most one processing step is in progress at any
\* instant; a tick that fires while a step awaits an external call starts
\* no second step.
C1_SingleFlight ==
    /\ activeSteps <= 1
    /\ (activeSteps = 1) <=> isProcessing

\* C1 witness: a tick fired while a step was awaiting, and one step is active.
C1_Witness == activeSteps = 1 /\ pc = "swap" /\ lastTick = "busy"

\* C2 -- Effective-status rule: the status a step dispatches on is the
\* internal status when the contract status is 1 and an internal status is
\* present, and the contract status in every other case.
C2_EffectiveStatusRule ==
    /\ \A c \in ContractStatuses :
       \A i \in {Undefined, SwapInitiated, SwapCompleted, ProceedsReceived} :
           currentStatus(c, i) =
               IF c = DispensedPendingProceeds /\ i # Undefined THEN i ELSE c
    /\ status # Undefined =>
           status = IF agi = DispensedPendingProceeds /\ internal # Undefined
                    THEN internal ELSE agi

\* C2 witness: a step read contract status 2 while the internal status was
\* SwapCompleted, and dispatched on 2.
C2_Witness ==
    /\ agi = ProceedsReceived
    /\ internal = SwapCompleted
    /\ status = ProceedsReceived

\* C3 -- Idempotent swap: once a swap call has returned for an id, no
\* later step starts a swap call for that id.
C3_IdempotentSwap ==
    [][\A i \in Ids : swapSucceeded[i] => swapCalls'[i] = swapCalls[i]]_vars

\* C3 witness: an id whose swap succeeded was completed, re-admitted by add
\* and is being processed again.
C3_Witness ==
    \E i \in Ids :
        /\ swapSucceeded[i]
        /\ i \in proceedsSeen
        /\ includes(queue, i)
        /\ cur = i
        /\ pc = "read"

\* C4 -- An id leaves the queue only in a step whose contract read returned
\* status 2, or in a step in which the swap-error ceiling was reached.
C4_RemovalOnlyByProceedsOrCeiling ==
    [][\A i \in Ids :
         (includes(queue, i) /\ ~includes(queue', i)) =>
            /\ cur = i
            /\ \/ pc = "read" /\ agi' = ProceedsReceived
               \/ /\ pc = "record"
                  /\ err = "swap"
                  /\ swapResults[i].status = "failed"
                  /\ attempts(i) >= MAX_RETRIES]_vars

\* C4 witness: one id has left the queue at status 2 and another one at the
\* swap ceiling.
C4_Witness ==
    \E i, j \in Ids :
        /\ i \in proceedsSeen /\ ~includes(queue, i)
        /\ j \in evicted /\ ~includes(queue, j)

\* C5 -- Swap ceiling: the step in which a swap failure brings the attempts
\* to MAX_RETRIES invokes the FailedSwaps store and removes the id from the
\* queue; no step ends with such an id still in the queue.
C5_CeilingEvictsInSameStep ==
    pc = "idle" =>
        \A i \in Ids :
            (swapResults[i].status = "failed" /\ attempts(i) >= MAX_RETRIES) =>
                recordCalls[i] >= 1 /\ ~includes(queue, i)

\* C6 -- A step that ends with a non-swap error never evicts the intent and
\* never invokes or writes the FailedSwaps store, whatever the swap record.
C6_NonSwapErrorNeverEvicts ==
    [][err' = "other" =>
         /\ evicted' = evicted
         /\ recordCalls' = recordCalls
         /\ failedSwaps' = failedSwaps
         /\ \A i \in Ids : includes(queue, i) => includes(queue', i)]_vars

\* C6 witness: a step ended with a non-swap error for an id whose swap
\* completed on attempt MAX_RETRIES; the id is still queued.
C6_Witness ==
    /\ pc = "idle"
    /\ err = "other"
    /\ cur \in Ids
    /\ swapResults[cur].status = "completed"
    /\ attempts(cur) = MAX_RETRIES
    /\ includes(queue, cur)

\* C7 -- For every id evicted by the swap ceiling, recordFailedSwap was
\* invoked exactly once, at eviction and never again.
C7_RecordExactlyOnce ==
    \A i \in evicted : recordCalls[i] = 1

\* C7 witness: after an eviction another step is in flight.
C7_Witness ==
    \E i \in evicted : recordCalls[i] = 1 /\ cur # i /\ pc = "read"

\* C8 -- For every id whose effective status reached ProceedsReceived,
\* tryDeleteFailedSwap was invoked exactly once.
C8_DeleteExactlyOnce ==
    \A i \in proceedsSeen : deleteCalls[i] = 1

\* C9 -- swap.attempts never decreases, and it increases by exactly one each
\* time a swap call is started (and only then).
C9_AttemptsMonotone ==
    [][\A i \in Ids :
         /\ swapResults'[i].attemptCount >= attempts(i)
         /\ swapCalls'[i] = swapCalls[i] + 1 =>
                swapResults'[i].attemptCount = attempts(i) + 1
         /\ swapCalls'[i] = swapCalls[i] =>
                swapResults'[i].attemptCount = attempts(i)]_vars

\* C9 witness: a swap call was started for the second time for an id.
C9_Witness ==
    \E i \in Ids : pc = "swap" /\ cur = i /\ attempts(i) = 2 /\ swapCalls[i] = 2

\* C10 -- Whenever the swap record of an id has phase Completed, its
\* internal status is SwapCompleted or ProceedsReceived, also after
\* handleProceedsReceived has run.
C10_CompletedImpliesStatus ==
    \A i \in Ids :
        swapResults[i].status = "completed" =>
            orderStatus[i] \in {SwapCompleted, ProceedsReceived}

\* C11 -- The queue never holds the same id twice, and add of an id that is
\* already queued changes neither the queue nor any per-intent state.
C11_QueueDistinct ==
    [][/\ \A a, b \in 1..Len(queue') : a # b => queue'[a] # queue'[b]
       /\ (lastCall'.op = "add" /\ lastCall'.result = "duplicate") =>
              UNCHANGED <<queue, checkIntervalId, swapResults, orderStatus,
                          lastAttemptAge, lastDelay>>]_vars

\* C11 witness: add was called for an id that is queued behind the id of
\* the step in flight.
C11_Witness ==
    /\ lastCall.op = "add"
    /\ lastCall.result = "duplicate"
    /\ Len(queue) = 2
    /\ pc = "swap"
    /\ lastCall.id # cur

\* C12 -- add of an id whose swap record is failed with attempts >=
\* MAX_RETRIES changes neither the queue nor the ticker; an evicted id never
\* re-enters the queue and no withdraw, swap or deposit is made for it.
C12_RefusedAfterCeiling ==
    [][/\ (lastCall'.op = "add" /\ lastCall'.result = "refused") =>
              UNCHANGED <<queue, checkIntervalId>>
       /\ \A i \in evicted :
              /\ ~includes(queue', i)
              /\ swapCalls'[i] = swapCalls[i]
              /\ ~(cur' = i /\ pc' \in {"withdraw", "swap", "deposit"})]_vars

\* C12 witness: add was refused for an evicted id while the ticker was
\* stopped on an empty queue.
C12_Witness ==
    /\ lastCall.op = "add"
    /\ lastCall.result = "refused"
    /\ lastCall.id \in evicted
    /\ queue = <<>>
    /\ ~checkIntervalId

C15_EmptyQueueStopsTicker ==
    [][lastCall'.op = "tick" =>
          /\ checkIntervalId
          /\ Len(queue) = 0 => ~checkIntervalId']_vars

\* C15 witness: the queue became empty by completion and the next tick
\* stopped the ticker.
C15_Witness ==
    /\ lastCall.op = "tick"
    /\ lastCall.result = "stopped"
    /\ ~checkIntervalId
    /\ proceedsSeen # {}
    /\ queue = <<>>

\* C16 -- withdrawAsset and depositAsset return without error only after a
\* receipt with status success, and a receipt with status reverted ends the
\* call with an error that the step handles as a non-swap error.
C16_RevertedReceiptRaises ==
    /\ pc = "delete" => receipt = "success"
    /\ receipt = "reverted" => pc \in {"idle", "record"} /\ err = "other"

\* C17 -- Liveness: with a fair ticker, with reads, withdraws and deposits
\* that eventually succeed (a call that never returns has at least taken
\* effect on the contract) and with fewer than MAX_RETRIES swap failures
\* per id, every id that is queued at contract status 0 is eventually out
\* of the queue at contract status 2, after its withdraw, one successful
\* swap and its deposit.
C17_EveryIntentCompletes ==
    ( /\ [](pc = "hung" => contractStatus[cur] = ProceedsReceived)
      /\ [](\A i \in Ids : swapResults[i].status = "failed" =>
                               attempts(i) < MAX_RETRIES) )
    => \A i \in Ids :
          (includes(queue, i) /\ contractStatus[i] = PendingDispense)
          ~> ( /\ ~includes(queue, i)
               /\ contractStatus[i] = ProceedsReceived
               /\ i \in proceedsSeen
               /\ swapSucceeded[i] )

\* C18 -- Delay regimes: when a step that passed the gate ends with its id
\* still queued, lastDelay of the id is SWAP_RETRY_DELAY after a SwapError
\* and RETRY_DELAY otherwise, and lastAttemptTime is the time the step ended.
C18_DelayRegimes ==
    [][(pc # "idle" /\ pc' = "idle" /\ includes(queue', cur)) =>
          /\ lastDelay'[cur] =
                 IF err' = "swap" THEN SWAP_RETRY_DELAY ELSE RETRY_DELAY
          /\ lastAttemptAge'[cur] = 0]_vars

\* C19 -- No error leaves a step: whatever external call fails, the step
\* ends, the single-flight flag is released, and the id is either still
\* queued with its attempt time and delay set by that step and eligible for
\* later steps, or evicted at the swap ceiling.
C19_StepContainsErrors ==
    [][/\ pc' # "hung"
       /\ (pc # "idle" /\ pc' = "idle" /\ err' # "none") =>
             /\ ~isProcessing'
             /\ \/ /\ includes(queue', cur)
                   /\ lastAttemptAge'[cur] = 0
                   /\ lastDelay'[cur] \in {RETRY_DELAY, SWAP_RETRY_DELAY}
                   /\ ~shouldSkipTask(swapResults', cur)
                \/ /\ ~includes(queue', cur)
                   /\ cur \in evicted'
                   /\ shouldSkipTask(swapResults', cur)]_vars

\* C20 -- Every external call of a step agrees with the contract status the
\* step read: withdraw only after a read of 0, swap and deposit only after
\* a read of 1, and no call after a read of 2.
C20_CallsMatchContractRead ==
    /\ pc = "withdraw" => agi = PendingDispense
    /\ pc \in {"swap", "deposit"} => agi = DispensedPendingProceeds
    /\ agi = ProceedsReceived => pc = "idle"

\* C20 witness: an id admitted at contract status 1 is being deposited
\* without this manager having withdrawn it, and another id admitted at
\* contract status 2 was removed without any call.
C20_Witness ==
    \E i, j \in Ids :
        /\ pc = "deposit" /\ cur = i /\ agi = DispensedPendingProceeds
        /\ j \in proceedsSeen /\ ~includes(queue, j)
        /\ swapCalls[j] = 0 /\ deleteCalls[j] = 0

\* C21 -- After the ProceedsReceived handler has run for an id, the id is
\* not in the queue and nothing is kept for it: no internal status, no swap
\* record, no last attempt time and no required delay.
C21_ProceedsReceivedClearsAll ==
    [][\A i \in Ids :
          (pc = "read" /\ cur = i /\ status' = ProceedsReceived /\ pc' = "idle") =>
              /\ ~includes(queue', i)
              /\ orderStatus'[i] = Undefined
              /\ swapResults'[i] = NoSwapResult
              /\ lastAttemptAge'[i] = Undefined
              /\ lastDelay'[i] = Undefined]_vars

\* C22 -- After an eviction by the swap ceiling the evicted id has no
\* internal status, no last attempt time and no required delay, while its
\* swap record, failed and with its attempt count, is kept.
C22_EvictionClearsProgress ==
    \A i \in evicted :
        /\ orderStatus[i] = Undefined
        /\ lastAttemptAge[i] = Undefined
        /\ lastDelay[i] = Undefined
        /\ swapResults[i].status = "failed"
        /\ attempts(i) >= MAX_RETRIES

\* C23 -- getfailedSwapTask returns exactly the ids whose swap record is
\* failed with an attempt count of at least MAX_RETRIES, with their number
\* as count; whenever no step is in progress this is the set of the ids
\* removeFromQueue has evicted.
C23_ReportIsEvicted ==
    /\ getfailedSwapTask.ids =
           { i \in Ids : swapResults[i].status = "failed"
                         /\ attempts(i) >= MAX_RETRIES }
    /\ getfailedSwapTask.count = Cardinality(getfailedSwapTask.ids)
    /\ pc = "idle" => getfailedSwapTask.ids = evicted

C25_StatusOrder ==
    [][(pc = "read" /\ status' # Undefined) =>
          LET p == prevStatus[cur]
              s == status'
          IN  /\ \/ p = Undefined
                 \/ p = s
                 \/ <<p, s>> \in { <<PendingDispense, DispensedPendingProceeds>>,
                                   <<DispensedPendingProceeds, SwapInitiated>>,
                                   <<SwapInitiated, SwapCompleted>>,
                                   <<SwapCompleted, ProceedsReceived>> }
              /\ (p = SwapInitiated /\ s = SwapCompleted) => swapSucceeded[cur]
              /\ (p = SwapCompleted /\ s = ProceedsReceived) =>
                     contractStatus[cur] = ProceedsReceived
              /\ s = DispensedPendingProceeds =>
                     /\ pc' = "idle"
                     /\ orderStatus'[cur] = SwapInitiated
                     /\ UNCHANGED <<contractStatus, swapCalls, deleteCalls,
                                    recordCalls, failedSwaps>>]_vars

\* C25 witness: an id was dispatched on 2 by the step after its deposit,
\* having been swapped and deposited by this manager.
C25_Witness ==
    \E i \in Ids :
        /\ prevStatus[i] = ProceedsReceived
        /\ swapSucceeded[i] /\ deleteCalls[i] = 1
        /\ i \in proceedsSeen /\ ~includes(queue, i)

C28_GateHasNoEffect ==
    [][(lastCall'.op = "tick" /\ lastCall'.id # 0 /\ mustWait(lastCall'.id)) =>
          /\ lastCall'.result \in {"gated", "skipped"}
          /\ queue' = rotate(queue)
          /\ pc' = "idle" /\ ~isProcessing' /\ agi' = Undefined
          /\ UNCHANGED <<swapResults, orderStatus, lastAttemptAge, lastDelay,
                         checkIntervalId, envVars, activeSteps, swapCalls,
                         swapSucceeded, recordCalls, deleteCalls, evicted,
                         proceedsSeen>>]_vars

\* C28 witness: a tick has just been held back by the gate for an id that
\* waits for its swap retry, with another id behind it in the queue.
C28_Witness ==
    \E i \in Ids :
        /\ lastCall = [op |-> "tick", id |-> i, result |-> "gated"]
        /\ lastDelay[i] = SWAP_RETRY_DELAY
        /\ swapResults[i].status = "failed"
        /\ Len(queue) = 2

\* C29 -- After a swap call for an id has failed, no further swap call is
\* made for that id before SWAP_RETRY_DELAY has passed since the failed
\* step ended, whatever ticks occur in between.
C29_SwapRetryDelay ==
    [][\A i \in Ids :
          (swapCalls'[i] = swapCalls[i] + 1 /\ failedAge[i] # Undefined) =>
              failedAge[i] >= SWAP_RETRY_DELAY]_vars

\* C29 witness: the second swap call for an id is in flight, after its
\* first one failed.
C29_Witness ==
    \E i \in Ids :
        /\ pc = "swap" /\ cur = i
        /\ swapCalls[i] = 2 /\ attempts(i) = 2
        /\ failedAge[i] = Undefined

\* C26 -- add may run at any await of a step in flight: the id added then
\* is appended behind the id being processed and nothing else changes;
\* the continuations of the step remove at most the step's own id, so the
\* added id stays queued; and the added id gets a turn on a later tick.
C26_AddDuringStep ==
    /\ [][/\ \A j \in Ids :
               (pc # "idle" /\ lastCall' = [op |-> "add", id |-> j, result |-> "added"]) =>
                   /\ queue' = Append(queue, j)
                   /\ includes(queue, cur)
                   /\ indexOf(queue', cur) < indexOf(queue', j)
                   /\ UNCHANGED <<isProcessing, swapResults, orderStatus,
                                  lastAttemptAge, lastDelay, stepVars, envVars,
                                  histVars>>
          /\ (pc # "idle" /\ lastCall'.op # "add") =>
                   queue' \in {queue, splice(queue, cur)}]_vars
    /\ \A j \in Ids :
          (pc \notin {"idle", "hung"}
             /\ lastCall = [op |-> "add", id |-> j, result |-> "added"])
          ~> (lastCall.op = "tick" /\ lastCall.id = j)

\* C24 -- Backlog scan: for every contract state, when processPendingAGIs
\* has finished, the ids it passed to add are exactly 1 .. nextOrderId - 1
\* without the ids of processedAGIs, each once and in increasing order.
C24_ScanAddsUnprocessed ==
    scan.pc = "done" =>
        scan.added = ascending((1..(nextOrderId - 1)) \ Range(processedAGIs))

\* C33 -- Whenever depositAsset is invoked for an id, a completed swap
\* record exists for it and the amount passed is the amount the single
\* successful swap call of that id returned; the internal status is never
\* SwapCompleted without a completed swap record.
C33_DepositUsesSwapAmount ==
    /\ pc = "deposit" =>
           /\ swapResults[cur].status = "completed"
           /\ swapSucceeded[cur]
           /\ swapResults[cur].amountToBuy = toAmount[cur]
    /\ \A i \in Ids :
           orderStatus[i] = SwapCompleted => swapResults[i].status = "completed"

\* C34 -- An invocation of depositAsset or of withdrawAsset submits one
\* transaction: writeContract returns at most once in it, and exactly once
\* when the receipt wait ends with a successful receipt.
C34_OneTransactionPerCall ==
    /\ written <= 1
    /\ receipt = "success" => written = 1

\* C31 -- A step that ends with an error other than a swap error (contract
\* read, withdraw, deposit or store failure) leaves the swap record of its
\* id as it was when the step started: none is created, and the attempt
\* count and status keep their values.
C31_NonSwapErrorKeepsRecord ==
    [][(pc # "idle" /\ pc' \in {"idle", "record"} /\ err' = "other") =>
          /\ swapResults'[cur] = swapAtStart
          /\ swapResults' = swapResults]_vars

\* C31 witness: a withdraw step has ended with an error and its id has no
\* swap record.
C31_Witness ==
    /\ pc = "idle" /\ err = "other" /\ status = PendingDispense
    /\ cur \in Ids
    /\ swapResults[cur] = NoSwapResult
    /\ includes(queue, cur)

\* C32 -- handleSwapCompleted sets the internal status to ProceedsReceived
\* and calls tryDeleteFailedSwap only after depositAsset has returned; when
\* depositAsset throws, the internal status stays SwapCompleted, the swap
\* record is unchanged and tryDeleteFailedSwap is not called in that step.
C32_DepositBeforeMark ==
    [][/\ \A i \in Ids :
            (\/ deleteCalls'[i] # deleteCalls[i]
             \/ (orderStatus'[i] = ProceedsReceived /\ orderStatus[i] # ProceedsReceived)) =>
                /\ pc = "deposit" /\ cur = i
                /\ receipt' = "success"
                /\ contractStatus'[i] = ProceedsReceived
       /\ (pc = "deposit" /\ err' = "other") =>
                /\ orderStatus'[cur] = SwapCompleted
                /\ UNCHANGED <<orderStatus, swapResults, deleteCalls>>
                /\ pc' # "delete"]_vars

\* C32 witness: a deposit step has ended with an error; the internal status
\* of its id is still SwapCompleted and tryDeleteFailedSwap was not called.
C32_Witness ==
    /\ pc = "idle" /\ err = "other" /\ status = SwapCompleted
    /\ cur \in Ids
    /\ orderStatus[cur] = SwapCompleted
    /\ swapResults[cur].status = "completed"
    /\ deleteCalls[cur] = 0

\* C35 -- Receipt waiting terminates: the step that holds the
\* single-flight flag always ends.
C35_StepAlwaysEnds == isProcessing ~> ~isProcessing

\* C37 -- Whenever no step is in flight, no swap record is pending: a
\* pending record exists only while the defaultSwap call of its id is
\* awaited, so handleSwapInitiated never finds a pending record.
C37_NoPendingOutsideSwap ==
    /\ \A i \in Ids :
           swapResults[i].status = "pending" => (pc = "swap" /\ cur = i)
    /\ ~isProcessing => \A i \in Ids : swapResults[i].status # "pending"

\* C37 witness: a swap step has ended with a failed swap and the record
\* that was pending during the call is now failed.
C37_Witness ==
    /\ pc = "idle" /\ ~isProcessing /\ err = "swap"
    /\ cur \in Ids
    /\ swapCalls[cur] = 1
    /\ swapResults[cur].status = "failed"

\* C38 -- For every id the attempt count never exceeds MAX_RETRIES, and
\* defaultSwap is called at most MAX_RETRIES times for it.
C38_AttemptsBounded ==
    \A i \in Ids :
        /\ attempts(i) <= MAX_RETRIES
        /\ swapCalls[i] <= MAX_RETRIES
        /\ swapCalls[i] = attempts(i)

\* C38 witness: an id was evicted after MAX_RETRIES swap calls and a later
\* add of it was refused.
C38_Witness ==
    \E i \in Ids :
        /\ swapCalls[i] = MAX_RETRIES
        /\ i \in evicted
        /\ lastCall = [op |-> "add", id |-> i, result |-> "refused"]

\* C39 -- Whenever no step is in flight, no queued id has a failed swap
\* record with an attempt count of at least MAX_RETRIES: the queue and the
\* ids of getfailedSwapTask are disjoint.
C39_QueueDisjointFromReport ==
    ~isProcessing =>
        \A i \in Ids : ~(includes(queue, i) /\ i \in getfailedSwapTask.ids)

\* C36 -- Whenever the queue is non-empty the ticker is running: add of
\* a new id starts it, and it is stopped only when the queue is empty; so
\* whenever an id is queued and no step is in flight, the next interval
\* callback gives the head of the queue its step, also for an id added
\* after the ticker had stopped on an empty queue.
C36_TickerRunsWhileQueued ==
    /\ [](Len(queue) > 0 => checkIntervalId)
    /\ []((Len(queue) > 0 /\ ~isProcessing) =>
              ENABLED (Tick /\ lastCall'.op = "tick" /\ lastCall'.id = Head(queue)))
    /\ [][/\ (lastCall'.op = "add" /\ lastCall'.result = "added") => checkIntervalId'
          /\ (checkIntervalId /\ ~checkIntervalId') => Len(queue') = 0
          /\ (lastCall'.op = "tick" /\ ~isProcessing /\ Len(queue) > 0) =>
                 lastCall'.id = Head(queue)]_vars

\* C36 witness: after an eviction the last interval callback stopped the
\* ticker on the empty queue, and the add of another id has started it
\* again.
C36_Witness ==
    \E i \in Ids :
        /\ evicted # {} /\ i \notin evicted
        /\ lastTick = "stopped"
        /\ lastCall = [op |-> "add", id |-> i, result |-> "added"]
        /\ queue = <<i>>
        /\ checkIntervalId /\ ~isProcessing

====
